---- MODULE Spec2Model ----
(***************************************************************************)
(* Model of whisper_websocket_server.py: one WhisperWebSocketProcessor per *)
(* connection (audio buffer, threshold flush, format_result clamp,         *)
(* update_languages) driven by handle_client's per-message dispatch.       *)
(*                                                                         *)
(* The recognition engine (whisper_online.asr_factory / OnlineASRProcessor)*)
(* and the translation service are external: each call's outcome is a      *)
(* nondeterministic choice (a result, or an exception).                    *)
(*                                                                         *)
(* Audio bytes are represented by their arrival index in the session's     *)
(* inbound byte stream, so loss, duplication and reordering are visible.   *)
(***************************************************************************)
EXTENDS Integers, Sequences, FiniteSets, TLC

\* ------------------------------------------------------------- bounds
\* messages one client sends on its connection
MaxMsgs == 3
\* inbound messages handled by all connections together, when several run
MaxTotalMsgs == 2
\* longest binary frame, in bytes
MaxFrameLen == 2
\* largest time (seconds) the engine reports
MaxTime == 1
\* scaled-down threshold: int(min_chunk * SAMPLING_RATE * 2) bytes
min_buffer_size == 2

\* ------------------------------------------------------------- values
Sessions == {1, 2}

\* Python None / a present value
None == <<>>
Some(x) == <<x>>
IsNone(v) == v = <<>>
Val(v) == v[1]

Max(a, b) == IF a >= b THEN a ELSE b

\* a subset of the keys of WHISPER_LANGUAGES
WHISPER_LANGUAGES == {"auto", "en", "fr"}
\* language codes a setLanguages request carries ("xx" is no key of the table)
SourceInputs == {"en", "fr", "xx"}
TargetInputs == {"fr", "en"}
\* a request field that is absent from the JSON object
Absent == "<absent>"

\* times the engine reports, in seconds
Times == 0..MaxTime
\* a recognised text, as a sequence of characters (strip() has work to do)
Hello == <<" ", "a", " ">>
\* what process_iter / finish return, (start, end, text): nothing recognised,
\* a text without both times, a text with both times
EngineResults ==
    {<<None, None, t>> : t \in {<<>>, <<" ">>}}
    \cup {<<None, None, Hello>>, <<Some(0), None, Hello>>, <<None, Some(0), Hello>>}
    \cup {<<Some(0), Some(0), <<" ">>>>}
    \cup {<<Some(b), Some(e), Hello>> : b \in Times, e \in Times}
\* an external call that raises / returns normally
Raise == <<"raise">>
Ok == <<"ok">>
EngineOutcomes == EngineResults \cup {Raise}

\* what translator.translate returns: a text, "" or None (every failure is None)
TranslatorOutcomes == {"text", "empty", "none"}
\* translator.translate was not called
NoCall == "no call"

VARIABLES
    enable_translation, \* args.enable_translation
    translator,         \* module-level translator object present
    source_language,    \* processor.source_language, per session
    target_language,    \* processor.target_language
    audio_buffer,       \* processor.audio_buffer: list of frames
    buffer_size,        \* processor.buffer_size
    last_end,           \* processor.last_end (None or ms)
    online_asr_proc,    \* processor.online_asr_proc: [id, lan, fed]
    nmsg,               \* history: inbound messages handled
    nbytes,             \* history: audio bytes received (next arrival index - 1)
    mark,               \* history: nbytes at the last flush or reset
    phase,              \* history: IDLE / ACTIVE / STOPPED of the protocol
    msg,                \* history: the inbound message handled last
    sent,               \* history: events sent while handling it, in order
    subs,               \* history: engine submissions made while handling it
    raised,             \* history: an exception reached handle_client's except
    calls,              \* history: external calls made while handling it
    seg,                \* history: the segment the engine returned for it, or None
    relay,              \* history: what translator.translate returned for it
    ordered,            \* history: no segment so far had its start after its end
    flush,              \* history: "none", "ok" or "failed": its threshold flush
    lang_mark,          \* history: nbytes when the adapter was last recreated
    final_end,          \* history: end of the latest final event since 'start'
    prev_final_end,     \* history: final_end before the message handled last
    prev_final_end_ever \* history: the same, not cleared by 'start'

vars == <<enable_translation, translator, source_language, target_language,
          audio_buffer, buffer_size, last_end, online_asr_proc, nmsg, nbytes,
          mark, phase, msg, sent, subs, raised, calls, seg, relay, ordered,
          flush,
          lang_mark,
          final_end, prev_final_end, prev_final_end_ever>>

\* ------------------------------------------------------------- events
Status(m) == [type |-> "status", message |-> m]
Error(m) == [type |-> "error", message |-> m]
Transcription(text, beg, end, final) ==
    [type |-> "transcription", text |-> text, start |-> beg, end |-> end,
     isFinal |-> final]
Translation(text, beg, end, src, tgt) ==
    [type |-> "translation", text |-> text, start |-> beg, end |-> end,
     isFinal |-> TRUE, sourceLanguage |-> src, targetLanguage |-> tgt]

\* ------------------------------------------------------------- pure parts
\* str.strip(): leading and trailing blanks removed
RECURSIVE lstrip(_)
lstrip(t) == IF t # <<>> /\ Head(t) = " " THEN lstrip(Tail(t)) ELSE t
RECURSIVE rstrip(_)
rstrip(t) ==
    IF t # <<>> /\ t[Len(t)] = " " THEN rstrip(SubSeq(t, 1, Len(t) - 1)) ELSE t
strip(t) == rstrip(lstrip(t))

\* mutant of ClampBeg: the start is taken from the engine as it is
ClampBeg_Unclamped(beg, le) == beg

\* beg = max(beg, self.last_end) when last_end is set
ClampBeg(beg, le) == IF ~IsNone(le) THEN Max(beg, Val(le)) ELSE beg

\* the stored end after a final segment: self.last_end = end
StoredEnd(end, le) == Some(end)

\* mutant of format_result: a partial segment stores its end of 0 as well
format_result_PartialStoresEnd(o, le) ==
    IF Len(o) >= 3 /\ o[3] # <<>> /\ strip(o[3]) # <<>>
    THEN LET text == strip(o[3]) IN
         IF ~IsNone(o[1]) /\ ~IsNone(o[2])
         THEN LET beg == Val(o[1]) * 1000
                  end == Val(o[2]) * 1000
              IN [event |-> Some(Transcription(text, ClampBeg(beg, le), end, TRUE)),
                  last_end |-> StoredEnd(end, le)]
         ELSE [event |-> Some(Transcription(text, 0, 0, FALSE)),
               last_end |-> Some(0)]
    ELSE [event |-> None, last_end |-> le]

\* format_result(o) with self.last_end = le: the event (or None) and last_end after
format_result(o, le) ==
    IF Len(o) >= 3 /\ o[3] # <<>> /\ strip(o[3]) # <<>>
    THEN LET text == strip(o[3]) IN
         IF ~IsNone(o[1]) /\ ~IsNone(o[2])
         THEN LET beg == Val(o[1]) * 1000
                  end == Val(o[2]) * 1000
              IN [event |-> Some(Transcription(text, ClampBeg(beg, le), end, TRUE)),
                  last_end |-> StoredEnd(end, le)]
         ELSE [event |-> Some(Transcription(text, 0, 0, FALSE)), last_end |-> le]
    ELSE [event |-> None, last_end |-> le]

\* mutant of Join: the chunks are joined newest first
RECURSIVE Join_NewestFirst(_)
Join_NewestFirst(buf) ==
    IF buf = <<>> THEN <<>> ELSE Join_NewestFirst(Tail(buf)) \o Head(buf)

\* b''.join(self.audio_buffer)
RECURSIVE Join(_)
Join(buf) == IF buf = <<>> THEN <<>> ELSE Head(buf) \o Join(Tail(buf))

\* np.frombuffer(.., dtype=np.int16): two bytes make one sample; it raises on an
\* odd byte count
FromBufferRaises(bytes) == Len(bytes) % 2 # 0
frombuffer(bytes) ==
    [i \in 1..(Len(bytes) \div 2) |-> <<bytes[2 * i - 1], bytes[2 * i]>>]

\* mutant of BelowThreshold: the flush comes one byte early
BelowThreshold_OneEarly(size) == size < min_buffer_size - 1

\* process_audio's early return: not enough audio yet
BelowThreshold(size) == size < min_buffer_size

\* the text the translation service gives for a text
Translated(text) == <<"T">> \o text

\* ------------------------------------------------------------- processor
\* the WhisperWebSocketProcessor of session s, as a value
P(s) == [source_language |-> source_language[s],
         target_language |-> target_language[s],
         audio_buffer |-> audio_buffer[s],
         buffer_size |-> buffer_size[s],
         last_end |-> last_end[s],
         online_asr_proc |-> online_asr_proc[s]]

\* mutant of create_asr_processor: the new handle keeps the old language hint
create_asr_processor_OldHint(p, fac) ==
    IF fac = Raise
    THEN [p |-> p, raised |-> TRUE]
    ELSE [p |-> [p EXCEPT !.online_asr_proc =
                     [id |-> @.id + 1, lan |-> @.lan, fed |-> 0]],
          raised |-> FALSE]

\* mutant of create_asr_processor: a new handle also clears the stored end-time
create_asr_processor_ClearsLastEnd(p, fac) ==
    IF fac = Raise
    THEN [p |-> p, raised |-> TRUE]
    ELSE [p |-> [p EXCEPT !.online_asr_proc =
                     [id |-> @.id + 1, lan |-> p.source_language, fed |-> 0],
                          !.last_end = None],
          raised |-> FALSE]

\* asr_factory(current_args) with current_args.lan = self.source_language: a new
\* handle, assigned only when the factory returns
create_asr_processor(p, fac) ==
    IF fac = Raise
    THEN [p |-> p, raised |-> TRUE]
    ELSE [p |-> [p EXCEPT !.online_asr_proc =
                     [id |-> @.id + 1, lan |-> p.source_language, fed |-> 0]],
          raised |-> FALSE]

\* update_languages(source_lang, target_lang): the languages are stored first,
\* then the processor is recreated when the source differs
update_languages(p, src, tgt, fac) ==
    LET p1 == [p EXCEPT !.source_language = src, !.target_language = tgt] IN
    IF p.source_language # src
    THEN LET c == create_asr_processor(p1, fac) IN
         [p |-> c.p, raised |-> c.raised, change |-> "source_changed",
          calls |-> <<"asr_factory">>]
    ELSE IF p.target_language # tgt
    THEN [p |-> p1, raised |-> FALSE, change |-> "target_changed", calls |-> <<>>]
    ELSE [p |-> p1, raised |-> FALSE, change |-> "no_change", calls |-> <<>>]

\* add_audio_chunk(audio_bytes)
add_audio_chunk(p, bytes) ==
    [p EXCEPT !.audio_buffer = Append(@, bytes),
              !.buffer_size = @ + Len(bytes)]

\* process_audio(): below the threshold nothing happens; otherwise the buffer is
\* joined and cleared, then converted and handed to the engine inside try/except
\* (every exception there is logged and None returned)
process_audio(p, eng) ==
    IF BelowThreshold(p.buffer_size)
    THEN [p |-> p, result |-> None, subs |-> <<>>, flushed |-> FALSE,
          failed |-> FALSE]
    ELSE LET combined_audio == Join(p.audio_buffer)
             p1 == [p EXCEPT !.audio_buffer = <<>>, !.buffer_size = 0]
         IN IF FromBufferRaises(combined_audio)
            THEN [p |-> p1, result |-> None, subs |-> <<>>, flushed |-> TRUE,
                  failed |-> TRUE]
            ELSE LET audio == frombuffer(combined_audio)
                     sub == [to |-> p.online_asr_proc.id,
                             lan |-> p.online_asr_proc.lan, audio |-> audio]
                     p2 == [p1 EXCEPT !.online_asr_proc.fed = @ + Len(audio)]
                 IN IF eng = Raise
                    THEN [p |-> p2, result |-> None, subs |-> <<sub>>,
                          flushed |-> TRUE, failed |-> TRUE]
                    ELSE LET f == format_result(eng, p.last_end) IN
                         [p |-> [p2 EXCEPT !.last_end = f.last_end],
                          result |-> f.event, subs |-> <<sub>>,
                          flushed |-> TRUE, failed |-> FALSE]

\* mutant of translate_text: a failed translation falls back to the input text
translate_text_FallbackToInput(p, text, enabled, tl, tr) ==
    IF ~enabled \/ ~tl
    THEN [result |-> None, called |-> FALSE]
    ELSE IF p.source_language = p.target_language
    THEN [result |-> Some(text), called |-> FALSE]
    ELSE [result |-> CASE tr = "text" -> Some(Translated(text))
                       [] tr = "empty" -> Some(<<>>)
                       [] OTHER -> Some(text),
          called |-> TRUE]

\* mutant of translate_text: no shortcut for equal languages
translate_text_AlwaysCalls(p, text, enabled, tl, tr) ==
    IF ~enabled \/ ~tl
    THEN [result |-> None, called |-> FALSE]
    ELSE [result |-> CASE tr = "text" -> Some(Translated(text))
                       [] tr = "empty" -> Some(<<>>)
                       [] OTHER -> None,
          called |-> TRUE]

\* translate_text(text): [result, called]; called says translator.translate ran
translate_text(p, text, enabled, tl, tr) ==
    IF ~enabled \/ ~tl
    THEN [result |-> None, called |-> FALSE]
    ELSE IF p.source_language = p.target_language
    THEN [result |-> Some(text), called |-> FALSE]
    ELSE [result |-> CASE tr = "text" -> Some(Translated(text))
                       [] tr = "empty" -> Some(<<>>)
                       [] OTHER -> None,
          called |-> TRUE]

\* finish(): online_asr_proc.finish() then format_result
finish(p, eng) ==
    IF eng = Raise
    THEN [p |-> p, result |-> None, raised |-> TRUE]
    ELSE LET f == format_result(eng, p.last_end) IN
         [p |-> [p EXCEPT !.last_end = f.last_end], result |-> f.event,
          raised |-> FALSE]

\* mutant of reset: the stored end-time survives
reset_KeepsLastEnd(p, ini) ==
    IF ini = Raise
    THEN [p |-> p, raised |-> TRUE]
    ELSE [p |-> [p EXCEPT !.online_asr_proc.fed = 0,
                          !.audio_buffer = <<>>, !.buffer_size = 0],
          raised |-> FALSE]

\* reset(): online_asr_proc.init() first, then the stitcher and buffer state
reset(p, ini) ==
    IF ini = Raise
    THEN [p |-> p, raised |-> TRUE]
    ELSE [p |-> [p EXCEPT !.online_asr_proc.fed = 0, !.last_end = None,
                          !.audio_buffer = <<>>, !.buffer_size = 0],
          raised |-> FALSE]

\* ------------------------------------------------------------- handle_client
\* `if x:` on an optional text or event
Truthy(v) == ~IsNone(v) /\ Val(v) # <<>>

\* mutant of SendResult: the translation goes out before its transcription
SendResult_TranslationFirst(p, result, enabled, tl, tr, need_final) ==
    IF IsNone(result)
    THEN [events |-> <<>>, calls |-> <<>>]
    ELSE LET ev == Val(result) IN
         IF enabled /\ (need_final => ev.isFinal) /\ ev.text # <<>>
         THEN LET t == translate_text(p, ev.text, enabled, tl, tr) IN
              [events |-> IF Truthy(t.result)
                          THEN <<Translation(Val(t.result), ev.start, ev.end,
                                             p.source_language,
                                             p.target_language), ev>>
                          ELSE <<ev>>,
               calls |-> IF t.called THEN <<"translate">> ELSE <<>>]
         ELSE [events |-> <<ev>>, calls |-> <<>>]

\* what follows a result of process_audio / finish: the event is sent, then the
\* translation when enabled (and, on the audio path, when the event is final)
SendResult(p, result, enabled, tl, tr, need_final) ==
    IF IsNone(result)
    THEN [events |-> <<>>, calls |-> <<>>]
    ELSE LET ev == Val(result) IN
         IF enabled /\ (need_final => ev.isFinal) /\ ev.text # <<>>
         THEN LET t == translate_text(p, ev.text, enabled, tl, tr) IN
              [events |-> IF Truthy(t.result)
                          THEN <<ev, Translation(Val(t.result), ev.start, ev.end,
                                                 p.source_language,
                                                 p.target_language)>>
                          ELSE <<ev>>,
               calls |-> IF t.called THEN <<"translate">> ELSE <<>>]
         ELSE [events |-> <<ev>>, calls |-> <<>>]

\* mutant of Unsupported: the validation lets every code through
Unsupported_Never(lang) == FALSE

\* source_lang not in WHISPER_LANGUAGES
Unsupported(lang) == lang \notin WHISPER_LANGUAGES

\* data.get(key, default)
GetOr(field, default) == IF field = Absent THEN default ELSE field

IsFinalEvent(e) == e.type = "transcription" /\ e.isFinal
\* end of the latest final event among the events sent, else the value before
RECURSIVE FinalEndAfter(_, _)
FinalEndAfter(evs, before) ==
    IF evs = <<>>
    THEN before
    ELSE FinalEndAfter(Tail(evs), IF IsFinalEvent(Head(evs))
                                  THEN Some(Head(evs).end) ELSE before)

Message(kind, len, src, tgt) ==
    [kind |-> kind, len |-> len, source |-> src, target |-> tgt]

\* the processor fields of session s become p
\* mutant of Store: the audio buffer is one list shared by all processors
Store_SharedBuffer(s, p) ==
    /\ source_language' = [source_language EXCEPT ![s] = p.source_language]
    /\ target_language' = [target_language EXCEPT ![s] = p.target_language]
    /\ audio_buffer' = [t \in Sessions |-> p.audio_buffer]
    /\ buffer_size' = [buffer_size EXCEPT ![s] = p.buffer_size]
    /\ last_end' = [last_end EXCEPT ![s] = p.last_end]
    /\ online_asr_proc' = [online_asr_proc EXCEPT ![s] = p.online_asr_proc]

\* the fields of the processor of session s after a message
Store(s, p) ==
    /\ source_language' = [source_language EXCEPT ![s] = p.source_language]
    /\ target_language' = [target_language EXCEPT ![s] = p.target_language]
    /\ audio_buffer' = [audio_buffer EXCEPT ![s] = p.audio_buffer]
    /\ buffer_size' = [buffer_size EXCEPT ![s] = p.buffer_size]
    /\ last_end' = [last_end EXCEPT ![s] = p.last_end]
    /\ online_asr_proc' = [online_asr_proc EXCEPT ![s] = p.online_asr_proc]

\* segment sg (or None) has both times and its start is after its end
StartAfterEnd(sg) ==
    /\ ~IsNone(sg)
    /\ ~IsNone(Val(sg)[1])
    /\ ~IsNone(Val(sg)[2])
    /\ Val(Val(sg)[1]) > Val(Val(sg)[2])

\* the record of the message just handled
Handled(s, m, evs, sb, rz, cl, sg, rl) ==
    /\ nmsg' = [nmsg EXCEPT ![s] = @ + 1]
    /\ msg' = [msg EXCEPT ![s] = m]
    /\ sent' = [sent EXCEPT ![s] = evs]
    /\ subs' = [subs EXCEPT ![s] = sb]
    /\ raised' = [raised EXCEPT ![s] = rz]
    /\ calls' = [calls EXCEPT ![s] = cl]
    /\ seg' = [seg EXCEPT ![s] = sg]
    /\ relay' = [relay EXCEPT ![s] = rl]
    /\ ordered' = [ordered EXCEPT ![s] = @ /\ ~StartAfterEnd(sg)]
    /\ prev_final_end' = [prev_final_end EXCEPT ![s] = final_end[s]]
    /\ prev_final_end_ever' =
           [prev_final_end_ever EXCEPT ![s] = FinalEndAfter(sent[s], @)]
    /\ UNCHANGED <<enable_translation, translator>>

\* the engine outcome matters only when the engine is reached
EngineChoices(reached) == IF reached THEN EngineOutcomes ELSE {Raise}
TranslatorChoices(reached) == IF reached THEN TranslatorOutcomes ELSE {"none"}

\* isinstance(message, bytes): add_audio_chunk, process_audio, send the result
BinaryFrame(s) ==
    /\ nmsg[s] < MaxMsgs
    /\ \E n \in 0..MaxFrameLen :
       \E p1 \in {add_audio_chunk(P(s), [i \in 1..n |-> nbytes[s] + i])} :
       \E eng \in EngineChoices(~BelowThreshold(p1.buffer_size)) :
       \E r \in {process_audio(p1, eng)} :
       \E tr \in TranslatorChoices(
                    SendResult(r.p, r.result, enable_translation, translator,
                               "none", TRUE).calls # <<>>) :
       \E o \in {SendResult(r.p, r.result, enable_translation, translator, tr,
                            TRUE)} :
          /\ Store(s, r.p)
          /\ Handled(s, Message("binary", n, Absent, Absent), o.events, r.subs,
                     FALSE, o.calls,
                     IF r.flushed /\ ~r.failed THEN Some(eng) ELSE None,
                     IF o.calls # <<>> THEN tr ELSE NoCall)
          /\ nbytes' = [nbytes EXCEPT ![s] = @ + n]
          /\ mark' = [mark EXCEPT ![s] = IF r.flushed THEN nbytes[s] + n ELSE @]
          /\ final_end' = [final_end EXCEPT ![s] = FinalEndAfter(o.events, @)]
          /\ flush' = [flush EXCEPT ![s] = IF ~r.flushed THEN "none"
                                           ELSE IF r.failed THEN "failed"
                                           ELSE "ok"]
          /\ UNCHANGED <<phase, lang_mark>>

\* {"type": "start"}: reset, then a status with the languages
StartMsg(s) ==
    /\ nmsg[s] < MaxMsgs
    /\ \E ini \in {Ok, Raise} :
       \E r \in {reset(P(s), ini)} :
          /\ Store(s, r.p)
          /\ Handled(s, Message("start", 0, Absent, Absent),
                     IF r.raised
                     THEN <<Error(<<"exception", "init">>)>>
                     ELSE <<Status(<<"Started transcription",
                                     r.p.source_language,
                                     r.p.target_language>>)>>,
                     <<>>, r.raised, <<"init">>, None, NoCall)
          /\ mark' = [mark EXCEPT ![s] = IF r.raised THEN @ ELSE nbytes[s]]
          /\ final_end' = [final_end EXCEPT ![s] = IF r.raised THEN @ ELSE None]
          /\ phase' = [phase EXCEPT ![s] = IF r.raised THEN @ ELSE "ACTIVE"]
          /\ flush' = [flush EXCEPT ![s] = "none"]
          /\ UNCHANGED <<nbytes, lang_mark>>

\* {"type": "stop"}: finish, the event and its translation, then a status
StopMsg(s) ==
    /\ nmsg[s] < MaxMsgs
    /\ \E eng \in EngineOutcomes :
       \E r \in {finish(P(s), eng)} :
       \E tr \in TranslatorChoices(
                    SendResult(r.p, r.result, enable_translation, translator,
                               "none", FALSE).calls # <<>>) :
       \E o \in {SendResult(r.p, r.result, enable_translation, translator, tr,
                            FALSE)} :
       \E evs \in {IF r.raised
                   THEN <<Error(<<"exception", "finish">>)>>
                   ELSE o.events \o <<Status(<<"Stopped transcription">>)>>} :
          /\ Store(s, r.p)
          /\ Handled(s, Message("stop", 0, Absent, Absent), evs, <<>>, r.raised,
                     <<"finish">> \o o.calls,
                     IF r.raised THEN None ELSE Some(eng),
                     IF o.calls # <<>> THEN tr ELSE NoCall)
          /\ final_end' = [final_end EXCEPT ![s] = FinalEndAfter(evs, @)]
          /\ phase' = [phase EXCEPT ![s] = IF r.raised THEN @ ELSE "STOPPED"]
          /\ flush' = [flush EXCEPT ![s] = "none"]
          /\ UNCHANGED <<nbytes, mark, lang_mark>>

\* the response to a setLanguages whose source is supported
LanguagesResponse(u, source_lang, target_lang) ==
    IF u.raised
    THEN <<Error(<<"exception", "asr_factory">>)>>
    ELSE IF u.change = "source_changed"
    THEN <<[type |-> "languageChangeRestart", sourceLanguage |-> source_lang,
            targetLanguage |-> target_lang]>>
    ELSE IF u.change = "target_changed"
    THEN <<[type |-> "targetLanguageChanged", targetLanguage |-> target_lang]>>
    ELSE <<Status(<<"Languages updated", source_lang, target_lang>>)>>

\* {"type": "setLanguages", ...}: validation, update_languages, the response
SetLanguagesMsg(s) ==
    /\ nmsg[s] < MaxMsgs
    /\ \E src \in SourceInputs \cup {Absent}, tgt \in TargetInputs \cup {Absent} :
       \E source_lang \in {GetOr(src, "en")}, target_lang \in {GetOr(tgt, "fr")} :
          IF Unsupported(source_lang)
          THEN /\ Handled(s, Message("setLanguages", 0, source_lang, target_lang),
                          <<Error(<<"Unsupported source language", source_lang>>)>>,
                          <<>>, FALSE, <<>>, None, NoCall)
               /\ flush' = [flush EXCEPT ![s] = "none"]
               /\ UNCHANGED <<source_language, target_language, audio_buffer,
                              buffer_size, last_end, online_asr_proc, nbytes,
                              mark, final_end, phase, lang_mark>>
          ELSE \E fac \in IF source_language[s] # source_lang
                          THEN {Ok, Raise} ELSE {Ok} :
               \E u \in {update_languages(P(s), source_lang, target_lang, fac)} :
                  /\ Store(s, u.p)
                  /\ Handled(s, Message("setLanguages", 0, source_lang,
                                        target_lang),
                             LanguagesResponse(u, source_lang, target_lang),
                             <<>>, u.raised, u.calls, None, NoCall)
                  /\ lang_mark' =
                         [lang_mark EXCEPT ![s] =
                             IF u.p.online_asr_proc # online_asr_proc[s]
                             THEN nbytes[s] ELSE @]
                  /\ flush' = [flush EXCEPT ![s] = "none"]
                  /\ UNCHANGED <<nbytes, mark, final_end, phase>>

\* any other text frame: not JSON, JSON that is no object, or an object whose
\* type is none of start / stop / setLanguages
OtherText(s) ==
    /\ nmsg[s] < MaxMsgs
    /\ \E k \in {"invalid_json", "not_object", "unknown_type"} :
       /\ Handled(s, Message(k, 0, Absent, Absent),
                  CASE k = "invalid_json" -> <<Error(<<"Invalid JSON">>)>>
                    [] k = "not_object" -> <<Error(<<"exception", "get">>)>>
                    [] OTHER -> <<>>,
                  <<>>, k # "unknown_type", <<>>, None, NoCall)
       /\ flush' = [flush EXCEPT ![s] = "none"]
       /\ UNCHANGED <<source_language, target_language, audio_buffer,
                      buffer_size, last_end, online_asr_proc, nbytes, mark,
                      final_end, phase, lang_mark>>

\* ------------------------------------------------------------- specification
\* a connection right after handle_client built and reset its processor and
\* sent the 'Connected' status
Init ==
    /\ enable_translation \in BOOLEAN
    /\ translator \in BOOLEAN
    /\ translator => enable_translation
    /\ source_language = [s \in Sessions |-> "en"]
    /\ target_language = [s \in Sessions |-> "fr"]
    /\ audio_buffer = [s \in Sessions |-> <<>>]
    /\ buffer_size = [s \in Sessions |-> 0]
    /\ last_end = [s \in Sessions |-> None]
    /\ online_asr_proc = [s \in Sessions |-> [id |-> 1, lan |-> "en", fed |-> 0]]
    /\ nmsg = [s \in Sessions |-> 0]
    /\ nbytes = [s \in Sessions |-> 0]
    /\ mark = [s \in Sessions |-> 0]
    /\ phase = [s \in Sessions |-> "IDLE"]
    /\ msg = [s \in Sessions |-> Message("connect", 0, Absent, Absent)]
    /\ sent = [s \in Sessions |-> <<Status(<<"Connected", enable_translation>>)>>]
    /\ subs = [s \in Sessions |-> <<>>]
    /\ raised = [s \in Sessions |-> FALSE]
    /\ calls = [s \in Sessions |-> <<>>]
    /\ seg = [s \in Sessions |-> None]
    /\ relay = [s \in Sessions |-> NoCall]
    /\ ordered = [s \in Sessions |-> TRUE]
    /\ final_end = [s \in Sessions |-> None]
    /\ prev_final_end = [s \in Sessions |-> None]
    /\ prev_final_end_ever = [s \in Sessions |-> None]
    /\ flush = [s \in Sessions |-> "none"]
    /\ lang_mark = [s \in Sessions |-> 0]

\* the messages of one connection, handled one at a time
Step(s) ==
    \/ BinaryFrame(s)
    \/ StartMsg(s)
    \/ StopMsg(s)
    \/ SetLanguagesMsg(s)
    \/ OtherText(s)

Next == Step(1)

Spec == Init /\ [][Next]_vars

\* several connections at once: the event loop runs one handle_client task at a
\* time, so their messages interleave in any order
NextMulti ==
    /\ nmsg[1] + nmsg[2] < MaxTotalMsgs
    /\ \E s \in Sessions : Step(s)

SpecMulti == Init /\ [][NextMulti]_vars

\* ------------------------------------------------------------- properties
\* session s handled one more message in this step
Stepped(s) == nmsg'[s] = nmsg[s] + 1

\* the final Transcription Events among the events of the message handled last
Finals(s) == {e \in {sent[s][i] : i \in 1..Len(sent[s])} : IsFinalEvent(e)}

\* C1: a final Transcription Event that follows an earlier final event of the
\* same session, with no 'start' reset in between, starts at or after the end of
\* that earlier event, whatever times the engine returned.
C1_FinalStartsAfterPreviousEnd ==
    \A s \in Sessions : \A e \in Finals(s) :
        ~IsNone(prev_final_end[s]) => e.start >= Val(prev_final_end[s])

\* C1 witness: a final event whose engine end is 0 s follows a final event that
\* ended at 1000 ms, and its start was lifted to 1000 ms.
C1_Witness ==
    \E e \in Finals(1) :
        /\ prev_final_end[1] = Some(1000)
        /\ e.end = 0
        /\ e.start = 1000

\* C2: the end values of successive final Transcription Events of a session
\* never decrease (the claim as the spec states it).
C2_FinalEndsNonDecreasing ==
    \A s \in Sessions : \A e \in Finals(s) :
        ~IsNone(prev_final_end_ever[s]) => e.end >= Val(prev_final_end_ever[s])

\* the arrival indices of the bytes received after byte number `from`, up to `to`
BytesBetween(from, to) == [i \in 1..(to - from) |-> from + i]

\* C3: a binary frame that leaves the bytes received since the last flush or
\* reset below the threshold makes no engine submission, sends no event, and
\* adds exactly its own bytes to the buffer and to the byte count.
C3_BelowThresholdOnlyBuffers ==
    [][\A s \in Sessions :
          (/\ Stepped(s)
           /\ msg'[s].kind = "binary"
           /\ nbytes'[s] - mark[s] < min_buffer_size)
          => /\ subs'[s] = <<>>
             /\ sent'[s] = <<>>
             /\ buffer_size'[s] = buffer_size[s] + msg'[s].len
             /\ audio_buffer'[s] =
                    Append(audio_buffer[s], BytesBetween(nbytes[s], nbytes'[s]))]_vars

\* C3 witness: two frames (one of them empty) are buffered, below the threshold,
\* and nothing was submitted or sent for the last one.
C3_Witness ==
    /\ msg[1].kind = "binary"
    /\ Len(audio_buffer[1]) = 2
    /\ buffer_size[1] = 1
    /\ buffer_size[1] < min_buffer_size
    /\ subs[1] = <<>>
    /\ sent[1] = <<>>

\* the bytes of a block of 16-bit samples, in order
BytesOf(audio) ==
    [i \in 1..(2 * Len(audio)) |-> audio[(i + 1) \div 2][IF i % 2 = 1 THEN 1 ELSE 2]]

\* session s just handled a binary frame that brought the bytes received since
\* the last flush or reset to the threshold or above
ReachedThreshold(s) ==
    /\ Stepped(s)
    /\ msg'[s].kind = "binary"
    /\ nbytes'[s] - mark[s] >= min_buffer_size

\* exactly one submission was made, holding every byte received since the last
\* flush or reset, in arrival order
OneFullSubmission(s) ==
    /\ Len(subs'[s]) = 1
    /\ BytesOf(subs'[s][1].audio) = BytesBetween(mark[s], nbytes'[s])

\* C4 as stated: a frame that reaches the threshold makes exactly one submission
\* with all buffered bytes in arrival order, and leaves the buffer empty and the
\* byte count 0.
C4_Original ==
    [][\A s \in Sessions :
          ReachedThreshold(s)
          => /\ OneFullSubmission(s)
             /\ audio_buffer'[s] = <<>>
             /\ buffer_size'[s] = 0]_vars

\* C4 amended: a frame that reaches the threshold leaves the buffer empty and the
\* byte count 0 in every case; when the buffered byte count is even exactly one
\* submission is made, with all buffered bytes in arrival order (also when the
\* engine then fails); when it is odd the conversion fails, no submission is made
\* and the buffered bytes are dropped.
C4_FlushEmptiesBufferAndSubmitsEven ==
    [][\A s \in Sessions :
          ReachedThreshold(s)
          => /\ audio_buffer'[s] = <<>>
             /\ buffer_size'[s] = 0
             /\ (nbytes'[s] - mark[s]) % 2 = 0 => OneFullSubmission(s)
             /\ (nbytes'[s] - mark[s]) % 2 # 0 => subs'[s] = <<>>
             /\ mark'[s] = nbytes'[s]]_vars

\* C4 witness: two one-byte frames were joined into one submission of bytes 1, 2
\* whose engine call failed, and the buffer is empty.
C4_Witness ==
    /\ msg[1].kind = "binary"
    /\ msg[1].len = 1
    /\ flush[1] = "failed"
    /\ Len(subs[1]) = 1
    /\ subs[1][1].audio = <<<<1, 2>>>>
    /\ audio_buffer[1] = <<>>
    /\ buffer_size[1] = 0

\* C5: a binary frame received while the session is IDLE or STOPPED causes no
\* engine submission and no event (the claim as the spec states it).
C5_NoSubmissionOutsideActive ==
    \A s \in Sessions :
        (msg[s].kind = "binary" /\ phase[s] \in {"IDLE", "STOPPED"})
        => (subs[s] = <<>> /\ sent[s] = <<>>)

\* an error event is among the events of the message session s handled in this step
ErrorSent(s) == \E i \in 1..Len(sent'[s]) : sent'[s][i].type = "error"

\* C6: when recreating the adapter fails during a setLanguages that changes the
\* source, an error event is sent and the languages and the adapter are as before
\* (the claim as the spec states it).
C6_FailedRecreationChangesNothing ==
    [][\A s \in Sessions :
          (/\ Stepped(s)
           /\ msg'[s].kind = "setLanguages"
           /\ msg'[s].source # source_language[s]
           /\ raised'[s])
          => /\ ErrorSent(s)
             /\ source_language'[s] = source_language[s]
             /\ target_language'[s] = target_language[s]
             /\ online_asr_proc'[s] = online_asr_proc[s]]_vars

\* C7: a setLanguages whose source is not supported is answered with an error
\* event and changes nothing of the session, whatever target it carries.
C7_UnsupportedSourceChangesNothing ==
    [][\A s \in Sessions :
          (/\ Stepped(s)
           /\ msg'[s].kind = "setLanguages"
           /\ msg'[s].source \notin WHISPER_LANGUAGES)
          => /\ Len(sent'[s]) = 1
             /\ ErrorSent(s)
             /\ P(s)' = P(s)
             /\ calls'[s] = <<>>]_vars

\* C7 witness: an unsupported source with a target other than the stored one was
\* rejected while audio was buffered and an end-time stored.
C7_Witness ==
    /\ msg[1].kind = "setLanguages"
    /\ msg[1].source = "xx"
    /\ msg[1].target # target_language[1]
    /\ sent[1] = <<Error(<<"Unsupported source language", "xx">>)>>
    /\ buffer_size[1] > 0
    /\ ~IsNone(last_end[1])

\* C8: a submission never holds a byte received before the latest recreation of
\* the adapter (the claim as the spec states it).
C8_NoStaleBytesToNewAdapter ==
    \A s \in Sessions : \A i \in 1..Len(subs[s]) :
        \A k \in 1..Len(BytesOf(subs[s][i].audio)) :
            BytesOf(subs[s][i].audio)[k] > lang_mark[s]

\* C9: a threshold flush that fails is reported to the client as an error event
\* for that frame (the claim as the spec states it).
C9_FailedFlushSendsError ==
    \A s \in Sessions :
        flush[s] = "failed" => \E i \in 1..Len(sent[s]) : sent[s][i].type = "error"

\* C10: a message whose processing raises is answered with an error event and
\* leaves the session state as it was (the claim as the spec states it).
C10_RaisingMessageChangesNothing ==
    [][\A s \in Sessions :
          (Stepped(s) /\ raised'[s]) => (ErrorSent(s) /\ P(s)' = P(s))]_vars

\* session s just handled, without an exception, a setLanguages request whose
\* source is supported
LanguagesUpdated(s) ==
    /\ Stepped(s)
    /\ msg'[s].kind = "setLanguages"
    /\ msg'[s].source \in WHISPER_LANGUAGES
    /\ ~raised'[s]

\* nothing of the processor but its languages and adapter changed
OnlyLanguagesMayChange(s) ==
    /\ audio_buffer'[s] = audio_buffer[s]
    /\ buffer_size'[s] = buffer_size[s]
    /\ last_end'[s] = last_end[s]

\* C11: a setLanguages request with a supported source is classified by
\* comparing it with the stored languages.  Both equal: a plain status and no
\* stored state changes.  Source equal, target different: targetLanguageChanged,
\* the stored target updated, the adapter not recreated.  Source different (and
\* the recreation returning): languageChangeRestart, both stored languages
\* updated, a new adapter bound to the new source.
C11_LanguageUpdateClassified ==
    [][\A s \in Sessions :
          LanguagesUpdated(s)
          => /\ OnlyLanguagesMayChange(s)
             /\ source_language'[s] = msg'[s].source
             /\ target_language'[s] = msg'[s].target
             /\ IF msg'[s].source # source_language[s]
                THEN /\ sent'[s] = <<[type |-> "languageChangeRestart",
                                      sourceLanguage |-> msg'[s].source,
                                      targetLanguage |-> msg'[s].target]>>
                     /\ online_asr_proc'[s].id # online_asr_proc[s].id
                     /\ online_asr_proc'[s].lan = msg'[s].source
                     /\ calls'[s] = <<"asr_factory">>
                ELSE IF msg'[s].target # target_language[s]
                THEN /\ sent'[s] = <<[type |-> "targetLanguageChanged",
                                      targetLanguage |-> msg'[s].target]>>
                     /\ online_asr_proc'[s] = online_asr_proc[s]
                     /\ calls'[s] = <<>>
                ELSE /\ Len(sent'[s]) = 1
                     /\ sent'[s][1].type = "status"
                     /\ P(s)' = P(s)
                     /\ calls'[s] = <<>>]_vars

\* C11 witness: after a target-only change, a request with another source was
\* answered with languageChangeRestart and the adapter recreated for it.
C11_Witness ==
    /\ msg[1].kind = "setLanguages"
    /\ nmsg[1] >= 2
    /\ sent[1] = <<[type |-> "languageChangeRestart", sourceLanguage |-> "fr",
                    targetLanguage |-> "en"]>>
    /\ source_language[1] = "fr"
    /\ target_language[1] = "en"
    /\ online_asr_proc[1] = [id |-> 2, lan |-> "fr", fed |-> 0]

\* the events of a type among the events of the message session s handled last
EventsOf(s, type) == {e \in {sent[s][i] : i \in 1..Len(sent[s])} : e.type = type}

\* C12: a Translation Event is emitted only when translation is enabled and the
\* session's source language differs from its target language; when source
\* equals target no Translation Event is emitted for any Transcription Event.
C12_TranslationOnlyWhenLanguagesDiffer ==
    \A s \in Sessions :
        EventsOf(s, "translation") # {}
        => (enable_translation /\ source_language[s] # target_language[s])

\* C13: when the Translation Relay fails or returns none for a Transcription
\* Event, the Transcription Event has been sent, no Translation Event and no
\* error event is sent for it, and no exception reaches the message loop, which
\* goes on with the next message.
C13_RelayFailureIsSilent ==
    \A s \in Sessions :
        relay[s] = "none"
        => /\ sent[s] # <<>>
           /\ sent[s][1].type = "transcription"
           /\ EventsOf(s, "translation") = {}
           /\ EventsOf(s, "error") = {}
           /\ ~raised[s]
           /\ msg[s].kind = "binary" => sent[s] = <<sent[s][1]>>
           /\ msg[s].kind = "stop"
              => sent[s] = <<sent[s][1], Status(<<"Stopped transcription">>)>>

\* C13 witness: the relay returned none for the final event of an audio frame
\* and only the Transcription Event went out.
C13_Witness ==
    /\ relay[1] = "none"
    /\ msg[1].kind = "binary"
    /\ calls[1] = <<"translate">>
    /\ Len(sent[1]) = 1
    /\ IsFinalEvent(sent[1][1])

\* texts handed to translate_text
Texts == {<<>>, <<"a">>, <<"a", " ">>, <<"b", "a">>}

\* translate_text was called for the event sent first by the last message of s
TranslateTextCalled(s) ==
    /\ msg[s].kind \in {"binary", "stop"}
    /\ ~raised[s]
    /\ sent[s] # <<>>
    /\ sent[s][1].type = "transcription"
    /\ msg[s].kind = "binary" => sent[s][1].isFinal
    /\ sent[s][1].text # <<>>
    /\ enable_translation

\* C14: with translation enabled (flag set and translator present), translate_text
\* with the source language equal to the target language returns its input
\* unchanged and does not call the translation service, for every language and
\* every text, whatever the service would have answered; in the handler, the
\* translation then sent carries the transcription's text and no call is made.
C14_SameLanguageReturnsInput ==
    /\ \A l \in WHISPER_LANGUAGES : \A text \in Texts : \A tr \in TranslatorOutcomes :
           \A s \in Sessions :
               translate_text([P(s) EXCEPT !.source_language = l,
                                           !.target_language = l],
                              text, TRUE, TRUE, tr)
               = [result |-> Some(text), called |-> FALSE]
    /\ \A s \in Sessions :
           (TranslateTextCalled(s) /\ translator
            /\ source_language[s] = target_language[s])
           => /\ relay[s] = NoCall
              /\ \A i \in 1..Len(calls[s]) : calls[s][i] # "translate"
              /\ Len(sent[s]) >= 2
              /\ sent[s][2] = Translation(sent[s][1].text, sent[s][1].start,
                                          sent[s][1].end, source_language[s],
                                          target_language[s])

\* C14 witness: source and target are both "fr", a 'stop' produced a
\* transcription and translate_text returned its text without a service call.
C14_Witness ==
    /\ source_language[1] = "fr"
    /\ target_language[1] = "fr"
    /\ msg[1].kind = "stop"
    /\ translator
    /\ TranslateTextCalled(1)
    /\ sent[1][2].type = "translation"
    /\ sent[1][2].text = <<"a">>
    /\ calls[1] = <<"finish">>

\* C15: a 'start' message (whose reset completes) in any state empties the
\* audio buffer, sets the byte count to 0, clears the stored end-time and
\* re-initializes the adapter's decoding state; the stored source language,
\* target language and the adapter (handle and language binding) are
\* unchanged; the answer is one status event reporting the current languages.
C15_StartResets ==
    [][\A s \in Sessions :
          (Stepped(s) /\ msg'[s].kind = "start" /\ ~raised'[s])
          => /\ audio_buffer'[s] = <<>>
             /\ buffer_size'[s] = 0
             /\ last_end'[s] = None
             /\ online_asr_proc'[s] = [online_asr_proc[s] EXCEPT !.fed = 0]
             /\ calls'[s] = <<"init">>
             /\ source_language'[s] = source_language[s]
             /\ target_language'[s] = target_language[s]
             /\ sent'[s] = <<Status(<<"Started transcription",
                                      source_language[s],
                                      target_language[s]>>)>>]_vars

\* C15 witness: a 'start' arrived as third message, after a flush had stored an
\* end-time and a further byte was waiting in the buffer; all of it is cleared.
C15_Witness ==
    /\ msg[1].kind = "start"
    /\ ~raised[1]
    /\ nmsg[1] = 3
    /\ nbytes[1] = 3
    /\ prev_final_end_ever[1] = Some(1000)
    /\ audio_buffer[1] = <<>>
    /\ buffer_size[1] = 0
    /\ last_end[1] = None
    /\ online_asr_proc[1].fed = 0

\* the text of segment o has a character that is not a blank
HasText(o) == \E i \in 1..Len(o[3]) : o[3][i] # " "

\* C16: on a 'stop' message (whose finish returns) the adapter's finish is
\* called once, before anything else; the outbound events are, in this order,
\* the Transcription Event of the finish result if its text is not blank, then
\* its Translation Event if there is one, then a status event, which is last
\* and is sent also when finish yields no event.
C16_StopOrder ==
    \A s \in Sessions :
        (msg[s].kind = "stop" /\ ~raised[s])
        => /\ calls[s] # <<>>
           /\ calls[s][1] = "finish"
           /\ \A i \in 2..Len(calls[s]) : calls[s][i] # "finish"
           /\ ~IsNone(seg[s])
           /\ sent[s] # <<>>
           /\ sent[s][Len(sent[s])] = Status(<<"Stopped transcription">>)
           /\ \A i \in 1..(Len(sent[s]) - 1) : sent[s][i].type # "status"
           /\ IF HasText(Val(seg[s]))
              THEN /\ Len(sent[s]) \in {2, 3}
                   /\ sent[s][1].type = "transcription"
                   /\ Len(sent[s]) = 3
                      => /\ sent[s][2].type = "translation"
                         /\ sent[s][2].start = sent[s][1].start
                         /\ sent[s][2].end = sent[s][1].end
              ELSE Len(sent[s]) = 1

\* C16 witness: a 'stop' whose finish returned a segment with text was answered
\* by transcription, translation, status, in that order.
C16_Witness ==
    /\ msg[1].kind = "stop"
    /\ ~raised[1]
    /\ calls[1] = <<"finish", "translate">>
    /\ Len(sent[1]) = 3
    /\ sent[1][1].type = "transcription"
    /\ sent[1][2].type = "translation"
    /\ sent[1][3].type = "status"

\* C17: the Translation Relay is invoked, and a Translation Event emitted, only
\* for a Transcription Event that is final; a partial event never leads to a
\* translation call or a Translation Event, on the audio-frame path and on the
\* 'stop' path alike.
C17_TranslationOnlyForFinal ==
    \A s \in Sessions :
        (relay[s] # NoCall \/ EventsOf(s, "translation") # {})
        => /\ sent[s] # <<>>
           /\ IsFinalEvent(sent[s][1])

\* C18: a setLanguages request, whatever its outcome (no change, target
\* changed, source changed, rejected, or failed recreation), leaves the
\* session's stored end-time unchanged, so the first final event after a
\* source-language change is still clamped to the end of the last final event
\* before the change.
C18_SetLanguagesKeepsStoredEnd ==
    [][\A s \in Sessions :
          (Stepped(s) /\ msg'[s].kind = "setLanguages")
          => /\ last_end'[s] = last_end[s]
             /\ final_end'[s] = final_end[s]
             /\ ~IsNone(final_end[s]) => last_end'[s] = final_end[s]]_vars

\* C18 witness: a final event ended at 1000, the source language was changed
\* (new adapter), and the next final event, reported by the engine as starting
\* at 0, starts at 1000.
C18_Witness ==
    /\ nmsg[1] = 3
    /\ msg[1].kind = "binary"
    /\ online_asr_proc[1].id = 2
    /\ source_language[1] = "fr"
    /\ prev_final_end[1] = Some(1000)
    /\ seg[1] = Some(<<Some(0), Some(1), Hello>>)
    /\ sent[1] # <<>>
    /\ IsFinalEvent(sent[1][1])
    /\ sent[1][1].start = 1000

\* the segment the engine returned to session s in this step has text and
\* lacks its start or its end time
PartialSegment(s) ==
    /\ Stepped(s)
    /\ ~IsNone(seg'[s])
    /\ HasText(Val(seg'[s]))
    /\ IsNone(Val(seg'[s])[1]) \/ IsNone(Val(seg'[s])[2])

\* C19: a segment with non-blank text in which the start or the end time is
\* absent yields a Transcription Event with start 0, end 0 and isFinal false,
\* and leaves the session's stored end-time unchanged.
C19_PartialSegment ==
    [][\A s \in Sessions :
          PartialSegment(s)
          => /\ sent'[s] # <<>>
             /\ sent'[s][1].type = "transcription"
             /\ sent'[s][1].start = 0
             /\ sent'[s][1].end = 0
             /\ sent'[s][1].isFinal = FALSE
             /\ sent'[s][1].text # <<>>
             /\ last_end'[s] = last_end[s]]_vars

\* C19 witness: after a final event that stored the end-time 1000, a flush
\* returned a segment with an end time but no start time; the event is partial
\* and the stored end-time is still 1000.
C19_Witness ==
    /\ msg[1].kind = "binary"
    /\ seg[1] = Some(<<None, Some(0), Hello>>)
    /\ sent[1] = <<Transcription(<<"a">>, 0, 0, FALSE)>>
    /\ last_end[1] = Some(1000)

\* C20: with several sessions running concurrently, under every interleaving
\* of their messages, handling a message of one session changes nothing of
\* another session: its audio buffer, byte count, stored end-time, stored
\* languages and adapter handle stay as they are, and so do the events it
\* sent, its engine submissions and its external calls.
C20_SessionsIsolated ==
    [][\A s \in Sessions : \A t \in Sessions \ {s} :
          Stepped(s)
          => /\ audio_buffer'[t] = audio_buffer[t]
             /\ buffer_size'[t] = buffer_size[t]
             /\ last_end'[t] = last_end[t]
             /\ source_language'[t] = source_language[t]
             /\ target_language'[t] = target_language[t]
             /\ online_asr_proc'[t] = online_asr_proc[t]
             /\ sent'[t] = sent[t]
             /\ subs'[t] = subs[t]
             /\ calls'[t] = calls[t]
             /\ nmsg'[t] = nmsg[t]]_vars

\* C20 witness: both sessions handled a message; session 2 holds a buffered
\* byte and its first languages and adapter while session 1 changed its source
\* language, has a new adapter and an empty buffer.
C20_Witness ==
    /\ nmsg[1] = 1
    /\ nmsg[2] = 1
    /\ msg[1].kind = "setLanguages"
    /\ msg[2].kind = "binary"
    /\ audio_buffer[2] = <<<<1>>>>
    /\ buffer_size[2] = 1
    /\ audio_buffer[1] = <<>>
    /\ source_language[1] = "fr"
    /\ source_language[2] = "en"
    /\ online_asr_proc[1].id = 2
    /\ online_asr_proc[2].id = 1

\* C21: every final Transcription Event emitted has start less than or equal
\* to end, as long as every segment the engine returned to the session had
\* start <= end.
C21_FinalStartNotAfterEnd ==
    \A s \in Sessions :
        ordered[s] => \A e \in Finals(s) : e.start <= e.end

\* the kinds of inbound text frames
TextKinds == {"start", "stop", "setLanguages", "invalid_json", "not_object",
              "unknown_type"}

\* C22: every inbound text frame, whatever its content (including a JSON object
\* whose type is not start, stop or setLanguages), causes at least one outbound
\* event to be sent before the next inbound message is handled.
C22_TextFrameAnswered ==
    \A s \in Sessions : msg[s].kind \in TextKinds => sent[s] # <<>>

====
